---- MODULE Spec2Model ----
(***************************************************************************)
(* rustifacts: walk a source tree, keep the files that are not under an    *)
(* ignored directory, and write each one into a flat destination           *)
(* directory under a name derived from its relative path.                  *)
(*                                                                         *)
(* Strings are sequences of tokens.  The characters the program inspects   *)
(* ("/", ",", "_") are tokens of their own; a run of other characters      *)
(* ("src", "txt") is one token.  A path is the sequence of its components  *)
(* (std::path::Components), each component a string.  All paths are        *)
(* relative to the working directory of the process; there are no          *)
(* symbolic links in the modelled trees.                                   *)
(***************************************************************************)
EXTENDS Integers, Sequences, FiniteSets, TLC

\* ------------------------------------------------------------------ bounds
\* at most this many regular files in the source tree of the first run
MaxFiles == 2

\* ----------------------------------------------------------------- strings
\* Option<T>: None, or Some(x)
None == <<>>
Some(x) == <<x>>
IsSome(o) == o # <<>>
Unwrap(o) == o[1]

SEP == "/"
COMMA == ","
USCORE == "_"
DOT == "."

Last(s) == s[Len(s)]

RECURSIVE Concat(_)
\* the concatenation of a sequence of strings
Concat(ss) == IF ss = <<>> THEN <<>> ELSE Head(ss) \o Concat(Tail(ss))

RECURSIVE JoinStr(_, _)
\* [String]::join(sep)
JoinStr(ss, sep) ==
    IF ss = <<>> THEN <<>>
    ELSE IF Len(ss) = 1 THEN ss[1]
    ELSE ss[1] \o <<sep>> \o JoinStr(Tail(ss), sep)

RECURSIVE SplitStr(_, _)
\* str::split(sep): the pieces between the separators, empty pieces included
SplitStr(s, sep) ==
    IF \A i \in 1..Len(s) : s[i] # sep THEN <<s>>
    ELSE LET k == CHOOSE i \in 1..Len(s) :
                      s[i] = sep /\ \A j \in 1..(i - 1) : s[j] # sep
         IN  <<SubSeq(s, 1, k - 1)>> \o SplitStr(SubSeq(s, k + 1, Len(s)), sep)

\* .filter(|s| !s.is_empty())
NonEmpty(ss) == SelectSeq(ss, LAMBDA x : x # <<>>)

\* str::replace(from, to) for one-character patterns
ReplaceStr(s, from, to) == [i \in 1..Len(s) |-> IF s[i] = from THEN to ELSE s[i]]

Range(s) == {s[i] : i \in 1..Len(s)}

\* ------------------------------------------------------------------- paths
CurDir == <<DOT>>
ParentDir == <<DOT, DOT>>

RECURSIVE DropInnerCurDir(_, _)
\* Path::components: a "." component is kept only in first position
DropInnerCurDir(p, first) ==
    IF p = <<>> THEN <<>>
    ELSE IF Head(p) = CurDir /\ ~first THEN DropInnerCurDir(Tail(p), FALSE)
    ELSE <<Head(p)>> \o DropInnerCurDir(Tail(p), FALSE)

\* Path::new(s): the components of the string s
ParsePath(s) == DropInnerCurDir(NonEmpty(SplitStr(s, SEP)), TRUE)

\* Path::to_string_lossy
PathStr(p) == JoinStr(p, SEP)

\* Path::join for a relative right-hand side
PathJoin(p, q) == DropInnerCurDir(p \o q, TRUE)

\* Path::starts_with: whole components only
StartsWith(p, base) ==
    /\ Len(base) <= Len(p)
    /\ SubSeq(p, 1, Len(base)) = base

\* Path::strip_prefix
StripPrefix(p, base) ==
    IF StartsWith(p, base)
    THEN [ok |-> TRUE, rel |-> SubSeq(p, Len(base) + 1, Len(p))]
    ELSE [ok |-> FALSE, rel |-> <<>>]

\* Path::file_name: None when the path ends in ".." (or is "." or empty)
FileName(p) ==
    IF p = <<>> \/ Last(p) = ParentDir \/ Last(p) = CurDir THEN None
    ELSE Some(Last(p))

RECURSIVE Resolve(_)
\* the directory entry a path names: "." dropped, ".." stepping up
Resolve(p) ==
    IF p = <<>> THEN <<>>
    ELSE LET r == Resolve(SubSeq(p, 1, Len(p) - 1))
         IN  IF Last(p) = CurDir THEN r
             ELSE IF Last(p) = ParentDir
                  THEN (IF r = <<>> THEN <<>> ELSE SubSeq(r, 1, Len(r) - 1))
             ELSE Append(r, Last(p))

\* ------------------------------------------------------------------ names
W == <<"w">>
A == <<"a">>
SRC == <<"src">>
TARGET == <<"target">>
\* "targets": the name "target" with one more character
TARGETS == <<"target", "s">>
CLAUDE_FILES == <<"claude", USCORE, "files">>
AB_TXT == <<"a", USCORE, "b", DOT, "txt">>
B_TXT == <<"b", DOT, "txt">>
M_RS == <<"m", DOT, "rs">>
X_PNG == <<"x", DOT, "png">>

\* ----------------------------------------------------------------- presets
\* get_preset_configs: the table of presets
PresetConfigs ==
    [nextjs |->
        [ignored_dirs |-> << <<"node", USCORE, "modules">>, <<DOT, "next">>,
                             <<"out">>, <<DOT, "git">> >>,
         included_extensions |-> << <<"js">>, <<"jsx">>, <<"ts">>, <<"tsx">>,
                                    <<"json">>, <<"md">>, <<"css">> >>,
         excluded_extensions |-> <<>>,
         target_dirs |-> << <<DOT>>, <<"src">>, <<"components">>,
                            <<"styles">>, <<"public">> >>],
     rust |->
        [ignored_dirs |-> << <<"target">>, <<DOT, "git">>, <<DOT, "idea">>,
                             <<DOT, "vscode">> >>,
         included_extensions |-> << <<"rs">>, <<"toml">>, <<"md">>, <<"json">>,
                                    <<"yml">>, <<"yaml">> >>,
         excluded_extensions |-> <<>>,
         target_dirs |-> << <<DOT>>, <<"src">>, <<"tests">>, <<"examples">>,
                            <<"benches">> >>]]

\* apply_preset: the configuration with the preset's four lists written over
\* whatever it held; ok is FALSE for a name the table does not hold
ApplyPresetTo(config, preset_name) ==
    IF preset_name \in DOMAIN PresetConfigs
    THEN LET preset == PresetConfigs[preset_name]
         IN  [ok |-> TRUE,
              config |->
                [config EXCEPT
                   !.additional_ignored_dirs = JoinStr(preset.ignored_dirs, COMMA),
                   !.included_extensions = JoinStr(preset.included_extensions, COMMA),
                   !.excluded_extensions = JoinStr(preset.excluded_extensions, COMMA),
                   !.target_dirs = Some(JoinStr(preset.target_dirs, COMMA))]]
    ELSE [ok |-> FALSE, config |-> config]

\* ------------------------------------------------------------ config file
\* ConfigFile::apply_to_config: every field the file sets replaces the
\* configuration's value
ApplyToConfig(file, config) ==
    [config EXCEPT
       !.source_dir = IF IsSome(file.source_dir)
                      THEN ParsePath(Unwrap(file.source_dir)) ELSE @,
       !.dest_dir = IF IsSome(file.dest_dir)
                    THEN ParsePath(Unwrap(file.dest_dir)) ELSE @,
       !.additional_ignored_dirs =
            IF IsSome(file.additional_ignored_dirs)
            THEN JoinStr(Unwrap(file.additional_ignored_dirs), COMMA) ELSE @,
       !.target_dirs =
            IF IsSome(file.target_dirs)
            THEN Some(JoinStr(Unwrap(file.target_dirs), COMMA)) ELSE @,
       !.excluded_extensions =
            IF IsSome(file.excluded_extensions)
            THEN JoinStr(Unwrap(file.excluded_extensions), COMMA) ELSE @,
       !.included_extensions =
            IF IsSome(file.included_extensions)
            THEN JoinStr(Unwrap(file.included_extensions), COMMA) ELSE @]

\* ------------------------------------------------------------------ config
\* the built-in ignored directories of Config::get_ignored_dirs
DefaultIgnoredDirs ==
    << <<DOT, "git">>, <<DOT, "idea">>, <<DOT, "vscode">>,
       <<"node", USCORE, "modules">>, <<"target">>, <<"build">>, <<"dist">>,
       <<USCORE, USCORE, "pycache", USCORE, USCORE>> >>

\* Config::get_ignored_dirs: the defaults, then the destination directory's
\* file name when it has one, then the user's comma-separated names
GetIgnoredDirs(config) ==
    DefaultIgnoredDirs
      \o (IF IsSome(FileName(config.dest_dir))
          THEN <<Unwrap(FileName(config.dest_dir))>> ELSE <<>>)
      \o NonEmpty(SplitStr(config.additional_ignored_dirs, COMMA))

\* Config::get_target_dirs
GetTargetDirs(config) ==
    IF IsSome(config.target_dirs)
    THEN [i \in DOMAIN NonEmpty(SplitStr(Unwrap(config.target_dirs), COMMA)) |->
             ParsePath(NonEmpty(SplitStr(Unwrap(config.target_dirs), COMMA))[i])]
    ELSE <<>>

\* str::to_lowercase on the extension tokens of the model
ToLowercase(s) ==
    [i \in 1..Len(s) |->
        CASE s[i] = "PNG" -> "png"
          [] s[i] = "RS" -> "rs"
          [] s[i] = "TXT" -> "txt"
          [] OTHER -> s[i]]

\* Config::get_excluded_extensions (the model's strings hold no blanks to trim)
GetExcludedExtensions(config) ==
    [i \in DOMAIN NonEmpty(SplitStr(config.excluded_extensions, COMMA)) |->
        ToLowercase(NonEmpty(SplitStr(config.excluded_extensions, COMMA))[i])]

\* Config::get_included_extensions
GetIncludedExtensions(config) ==
    [i \in DOMAIN NonEmpty(SplitStr(config.included_extensions, COMMA)) |->
        ToLowercase(NonEmpty(SplitStr(config.included_extensions, COMMA))[i])]

VARIABLES
    args,        \* Config::parse(): the configuration the command line gives
    cfgfile,     \* what reading the configuration file yields
    config,      \* main's `config`
    pc,          \* main's position
    files,       \* the regular files on disk: resolved path -> content
    dirs,        \* the directories on disk
    unreadable,  \* the files fs::read_to_string fails on
    walkq,       \* the entries WalkDir has still to yield, next one first
    artifacts,   \* collect's `artifacts`
    warnings,    \* the paths collect has logged a warning for
    written,     \* the destination paths write_all has written, in order
    files0,      \* the regular files on disk when write_all was called
    rerun,       \* whether this is the second run over the tree
    firstrun     \* the artifacts the first run collected

vars == <<args, cfgfile, config, pc, files, dirs, unreadable, walkq,
          artifacts, warnings, written, files0, rerun, firstrun>>

\* -------------------------------------------------------------- file system
IsFile(p) == Resolve(p) \in DOMAIN files
IsDir(p) == Resolve(p) \in dirs
Exists(p) == IsFile(p) \/ IsDir(p)

\* the paths from the root down to p, p included
Ancestors(p) == {SubSeq(p, 1, n) : n \in 0..Len(p)}

\* fs::read_dir as WalkDir uses it: the entries of directory p, each as p
\* joined with the entry's name
ReadDir(p) ==
    {PathJoin(p, <<Last(e)>>) :
        e \in {x \in (DOMAIN files) \cup dirs :
                  Len(x) = Len(Resolve(p)) + 1 /\ StartsWith(x, Resolve(p))}}

\* the orders in which a directory's entries may come
Orders(S) ==
    {o \in [1..Cardinality(S) -> S] :
        \A i, j \in 1..Cardinality(S) : i # j => o[i] # o[j]}

\* fs::read_to_string
ReadToString(p) ==
    IF IsFile(p) /\ Resolve(p) \notin unreadable
    THEN [ok |-> TRUE, content |-> files[Resolve(p)]]
    ELSE [ok |-> FALSE, content |-> <<>>]

\* whether fs::write to p can succeed: p's directory is there and p is none
CanWrite(p) ==
    /\ p # <<>>
    /\ SubSeq(Resolve(p), 1, Len(Resolve(p)) - 1) \in dirs
    /\ Resolve(p) \notin dirs

\* fs::write as it would be if it left a file that is already there alone
FsWriteKeep(fs, p, content) ==
    [x \in (DOMAIN fs) \cup {Resolve(p)} |->
        IF x \in DOMAIN fs THEN fs[x] ELSE content]

\* fs::write: the files with p created or truncated and content written
FsWrite(fs, p, content) ==
    [x \in (DOMAIN fs) \cup {Resolve(p)} |->
        IF x = Resolve(p) THEN content ELSE fs[x]]

\* whether fs::create_dir_all(p) can succeed: no file is in the way
CanCreateDirAll(p) == \A x \in Ancestors(Resolve(p)) : x \notin DOMAIN files

\* ---------------------------------------------------------------- artifact
\* generate_new_filename as it would be with replacen(MAIN_SEPARATOR, "_", 1)
GenerateNewFilenameFirstOnly(relative_path) ==
    [i \in 1..Len(PathStr(relative_path)) |->
        IF /\ PathStr(relative_path)[i] = SEP
           /\ \A j \in 1..(i - 1) : PathStr(relative_path)[j] # SEP
        THEN USCORE ELSE PathStr(relative_path)[i]]

\* Artifact::generate_new_filename
GenerateNewFilename(relative_path) ==
    ReplaceStr(PathStr(relative_path), SEP, USCORE)

\* Artifact::new
ArtifactNew(original_path, source_dir) ==
    LET stripped == StripPrefix(original_path, source_dir)
        read == ReadToString(original_path)
    IN  IF ~stripped.ok THEN [ok |-> FALSE, err |-> "StripPrefix"]
        ELSE IF ~read.ok THEN [ok |-> FALSE, err |-> "Io"]
        ELSE [ok |-> TRUE,
              artifact |-> [original_path |-> original_path,
                            new_filename |-> GenerateNewFilename(stripped.rel),
                            content |-> read.content]]

\* is_ignored as it would be comparing the paths as text:
\* path.to_string_lossy().starts_with(..)
IsIgnoredTextPrefix(path, source_dir, ignored_dirs) ==
    \E i \in 1..Len(ignored_dirs) :
        LET prefix == PathStr(PathJoin(source_dir, ParsePath(ignored_dirs[i])))
        IN  /\ Len(prefix) <= Len(PathStr(path))
            /\ SubSeq(PathStr(path), 1, Len(prefix)) = prefix

\* Artifact::is_ignored
IsIgnored(path, source_dir, ignored_dirs) ==
    \E i \in 1..Len(ignored_dirs) :
        StartsWith(path, PathJoin(source_dir, ParsePath(ignored_dirs[i])))

\* Artifact::write: the path it writes to
DestPath(artifact, dest_dir) == PathJoin(dest_dir, ParsePath(artifact.new_filename))

\* collect as it would be with one walk per target directory and no record
\* of the paths already yielded
WalkRootsPerTarget(cfg) ==
    IF GetTargetDirs(cfg) = <<>> THEN <<cfg.source_dir>>
    ELSE [i \in DOMAIN GetTargetDirs(cfg) |->
             PathJoin(cfg.source_dir, GetTargetDirs(cfg)[i])]

\* the roots Artifact::collect hands to WalkDir
WalkRoots(cfg) == <<cfg.source_dir>>

\* -------------------------------------------------------------------- main
\* main: the configuration file is applied
ApplyConfigFileOk ==
    /\ pc = "config_file"
    /\ IsSome(config.config_file) => IsSome(cfgfile)
    /\ config' = IF IsSome(config.config_file)
                 THEN ApplyToConfig(Unwrap(cfgfile), config) ELSE config
    /\ pc' = "preset"
    /\ UNCHANGED <<args, cfgfile, files, dirs, unreadable, walkq, artifacts,
                   warnings, written, files0, rerun, firstrun>>

\* main as it would be if it logged the configuration file's error and went on
ApplyConfigFileErrIgnored ==
    /\ pc = "config_file"
    /\ IsSome(config.config_file)
    /\ ~IsSome(cfgfile)
    /\ pc' = "preset"
    /\ UNCHANGED <<args, cfgfile, config, files, dirs, unreadable, walkq,
                   artifacts, warnings, written, files0, rerun, firstrun>>

\* main: the configuration file cannot be read or parsed; process::exit(1)
ApplyConfigFileErr ==
    /\ pc = "config_file"
    /\ IsSome(config.config_file)
    /\ ~IsSome(cfgfile)
    /\ pc' = "exit1"
    /\ UNCHANGED <<args, cfgfile, config, files, dirs, unreadable, walkq,
                   artifacts, warnings, written, files0, rerun, firstrun>>

\* main: config.preset.take(), and the preset is applied
ApplyPresetOk ==
    /\ pc = "preset"
    /\ IsSome(config.preset) => ApplyPresetTo(config, Unwrap(config.preset)).ok
    /\ config' = IF IsSome(config.preset)
                 THEN [ApplyPresetTo(config, Unwrap(config.preset)).config
                         EXCEPT !.preset = None]
                 ELSE config
    /\ pc' = "collect"
    /\ UNCHANGED <<args, cfgfile, files, dirs, unreadable, walkq, artifacts,
                   warnings, written, files0, rerun, firstrun>>

\* main: the preset is not in the table; process::exit(1)
ApplyPresetErr ==
    /\ pc = "preset"
    /\ IsSome(config.preset)
    /\ ~ApplyPresetTo(config, Unwrap(config.preset)).ok
    /\ config' = [config EXCEPT !.preset = None]
    /\ pc' = "exit1"
    /\ UNCHANGED <<args, cfgfile, files, dirs, unreadable, walkq, artifacts,
                   warnings, written, files0, rerun, firstrun>>

\* ----------------------------------------------------------------- collect
\* Artifact::collect begins: WalkDir::new on each root; a root that is not
\* there yields an error, which filter_map(|e| e.ok()) drops
CollectBegin ==
    /\ pc = "collect"
    /\ walkq' = SelectSeq(WalkRoots(config), Exists)
    /\ artifacts' = <<>>
    /\ warnings' = {}
    /\ pc' = "walk"
    /\ UNCHANGED <<args, cfgfile, config, files, dirs, unreadable, written,
                   files0, rerun, firstrun>>

\* the loop body for an entry that is a directory: path.is_file() is false;
\* WalkDir goes on with the directory's entries, in the order read_dir gives
WalkDirectory ==
    /\ pc = "walk"
    /\ walkq # <<>>
    /\ IsDir(Head(walkq))
    /\ \E o \in Orders(ReadDir(Head(walkq))) : walkq' = o \o Tail(walkq)
    /\ UNCHANGED <<args, cfgfile, config, pc, files, dirs, unreadable,
                   artifacts, warnings, written, files0, rerun, firstrun>>

\* the loop body for a file under an ignored directory
WalkIgnored ==
    /\ pc = "walk"
    /\ walkq # <<>>
    /\ IsFile(Head(walkq))
    /\ IsIgnored(Head(walkq), config.source_dir, GetIgnoredDirs(config))
    /\ walkq' = Tail(walkq)
    /\ UNCHANGED <<args, cfgfile, config, pc, files, dirs, unreadable,
                   artifacts, warnings, written, files0, rerun, firstrun>>

\* the loop body for a file Artifact::new succeeds on
WalkFileOk ==
    /\ pc = "walk"
    /\ walkq # <<>>
    /\ IsFile(Head(walkq))
    /\ ~IsIgnored(Head(walkq), config.source_dir, GetIgnoredDirs(config))
    /\ ArtifactNew(Head(walkq), config.source_dir).ok
    /\ artifacts' = Append(artifacts,
                           ArtifactNew(Head(walkq), config.source_dir).artifact)
    /\ walkq' = Tail(walkq)
    /\ UNCHANGED <<args, cfgfile, config, pc, files, dirs, unreadable,
                   warnings, written, files0, rerun, firstrun>>

\* the loop body as it would be with Self::new(..)? in place of the match:
\* collect returns the error and main exits with status 1
WalkFileErrPropagated ==
    /\ pc = "walk"
    /\ walkq # <<>>
    /\ IsFile(Head(walkq))
    /\ ~IsIgnored(Head(walkq), config.source_dir, GetIgnoredDirs(config))
    /\ ~ArtifactNew(Head(walkq), config.source_dir).ok
    /\ pc' = "exit1"
    /\ UNCHANGED <<args, cfgfile, config, files, dirs, unreadable, walkq,
                   artifacts, warnings, written, files0, rerun, firstrun>>

\* the loop body for a file Artifact::new fails on: warn! and continue
WalkFileErr ==
    /\ pc = "walk"
    /\ walkq # <<>>
    /\ IsFile(Head(walkq))
    /\ ~IsIgnored(Head(walkq), config.source_dir, GetIgnoredDirs(config))
    /\ ~ArtifactNew(Head(walkq), config.source_dir).ok
    /\ warnings' = warnings \cup {Head(walkq)}
    /\ walkq' = Tail(walkq)
    /\ UNCHANGED <<args, cfgfile, config, pc, files, dirs, unreadable,
                   artifacts, written, files0, rerun, firstrun>>

\* Artifact::collect returns Ok(artifacts); main calls write_all
CollectEnd ==
    /\ pc = "walk"
    /\ walkq = <<>>
    /\ pc' = "create_dir_all"
    /\ written' = <<>>
    /\ files0' = files
    /\ firstrun' = IF rerun THEN firstrun ELSE artifacts
    /\ UNCHANGED <<args, cfgfile, config, files, dirs, unreadable, walkq,
                   artifacts, warnings, rerun>>

\* --------------------------------------------------------------- write_all
\* fs::create_dir_all(dest_dir) succeeds
CreateDirAllOk ==
    /\ pc = "create_dir_all"
    /\ CanCreateDirAll(config.dest_dir)
    /\ dirs' = dirs \cup Ancestors(Resolve(config.dest_dir))
    /\ pc' = "write"
    /\ UNCHANGED <<args, cfgfile, config, files, unreadable, walkq, artifacts,
                   warnings, written, files0, rerun, firstrun>>

\* fs::create_dir_all(dest_dir) fails; write_all returns the error and main
\* exits with status 1
CreateDirAllErr ==
    /\ pc = "create_dir_all"
    /\ pc' = "exit1"
    /\ UNCHANGED <<args, cfgfile, config, files, dirs, unreadable, walkq,
                   artifacts, warnings, written, files0, rerun, firstrun>>

\* the next artifact of the list is written
WriteOk ==
    /\ pc = "write"
    /\ Len(written) < Len(artifacts)
    /\ LET p == DestPath(artifacts[Len(written) + 1], config.dest_dir)
       IN  /\ CanWrite(p)
           /\ files' = FsWrite(files, p, artifacts[Len(written) + 1].content)
           /\ written' = Append(written, p)
    /\ UNCHANGED <<args, cfgfile, config, pc, dirs, unreadable, walkq,
                   artifacts, warnings, files0, rerun, firstrun>>

\* write_all as it would be if it logged a failed write and went on with the
\* next artifact
WriteErrSkipped ==
    /\ pc = "write"
    /\ Len(written) < Len(artifacts)
    /\ written' = Append(written,
                         DestPath(artifacts[Len(written) + 1], config.dest_dir))
    /\ UNCHANGED <<args, cfgfile, config, pc, files, dirs, unreadable, walkq,
                   artifacts, warnings, files0, rerun, firstrun>>

\* writing the next artifact fails; write_all returns the error and main
\* exits with status 1
WriteErr ==
    /\ pc = "write"
    /\ Len(written) < Len(artifacts)
    /\ pc' = "exit1"
    /\ UNCHANGED <<args, cfgfile, config, files, dirs, unreadable, walkq,
                   artifacts, warnings, written, files0, rerun, firstrun>>

\* write_all returns Ok(()); main returns
WriteAllEnd ==
    /\ pc = "write"
    /\ Len(written) = Len(artifacts)
    /\ pc' = "done"
    /\ UNCHANGED <<args, cfgfile, config, files, dirs, unreadable, walkq,
                   artifacts, warnings, written, files0, rerun, firstrun>>

\* the program is run once more, with the same command line
Rerun ==
    /\ pc = "done"
    /\ ~rerun
    /\ rerun' = TRUE
    /\ config' = args
    /\ pc' = "config_file"
    /\ walkq' = <<>>
    /\ artifacts' = <<>>
    /\ warnings' = {}
    /\ written' = <<>>
    /\ files0' = files
    /\ UNCHANGED <<args, cfgfile, files, dirs, unreadable, firstrun>>

\* ------------------------------------------------------------------ inputs
\* the files a source tree may hold, by path relative to the source root
TreeFiles ==
    { <<AB_TXT>>, <<A, B_TXT>>, <<SRC, A, M_RS>>, <<TARGET, M_RS>>,
      <<TARGETS, M_RS>> }

\* the content of the file at relative path rel: its own for each file
ContentOf(rel) == <<"content of">> \o PathStr(rel)

\* the command line `-s w -d dest`, every other option left at its default
BaseArgs(dest) ==
    [source_dir |-> <<W>>,
     dest_dir |-> dest,
     additional_ignored_dirs |-> <<>>,
     target_dirs |-> None,
     excluded_extensions |-> <<>>,
     included_extensions |-> <<>>,
     preset |-> None,
     config_file |-> None]

\* the destination directories given on the command line: the default
\* ./claude_files, a child of the source root, a directory further down
DestDirs ==
    { <<CurDir, CLAUDE_FILES>>, <<W, CLAUDE_FILES>>, <<W, A, CLAUDE_FILES>> }

\* a configuration file that sets nothing
EmptyConfigFile ==
    [source_dir |-> None, dest_dir |-> None, additional_ignored_dirs |-> None,
     target_dirs |-> None, excluded_extensions |-> None,
     included_extensions |-> None]

\* what reading the configuration file may yield: None when it cannot be read
\* or parsed, or the file read
ConfigFiles ==
    { None,
      Some([EmptyConfigFile EXCEPT
              !.dest_dir = Some(<<"w", SEP, "a", SEP>> \o CLAUDE_FILES)]),
      Some([EmptyConfigFile EXCEPT
              !.included_extensions = Some(<< <<"txt">>, <<"rs">> >>)]) }

\* the command lines
AllArgs ==
    { [BaseArgs(d) EXCEPT !.preset = pr, !.config_file = cf,
                          !.target_dirs = t, !.excluded_extensions = x] :
        d \in {<<CurDir, CLAUDE_FILES>>, <<W, CLAUDE_FILES>>},
        pr \in {None, Some("rust"), Some("nextjs"), Some("bogus")},
        cf \in {None, Some(<<"rustifacts", DOT, "toml">>)},
        t \in {None, Some(<<"src">>)},
        x \in {<<>>, <<"PNG">>} }

\* the tree the command lines of AllArgs are run on
BaseTree == { <<SRC, A, M_RS>>, <<X_PNG>> }

\* the inputs of a run: every tree of at most MaxFiles files, some of them
\* unreadable, with each destination directory, with and without a preset;
\* every command line and configuration file over BaseTree; and the command
\* line `-s w/x.png`, which names a regular file as the source
Inputs ==
    { [rels |-> r, unr |-> u, args |-> [BaseArgs(d) EXCEPT !.preset = pr],
       cfgfile |-> None] :
        r \in {x \in SUBSET TreeFiles : Cardinality(x) <= MaxFiles},
        u \in SUBSET TreeFiles, d \in DestDirs,
        pr \in {None, Some("rust")} }
    \cup
    { [rels |-> BaseTree, unr |-> {}, args |-> a, cfgfile |-> c] :
        a \in AllArgs, c \in ConfigFiles }
    \cup
    { [rels |-> BaseTree, unr |-> {},
       args |-> [BaseArgs(d) EXCEPT !.source_dir = <<W, X_PNG>>],
       cfgfile |-> None] :
        d \in DestDirs }

Init ==
    \E in \in Inputs :
        /\ in.unr \subseteq in.rels
        /\ IsSome(in.cfgfile) => IsSome(in.args.config_file)
        /\ args = in.args
        /\ cfgfile = in.cfgfile
        /\ config = in.args
        /\ pc = "config_file"
        /\ files = [p \in {<<W>> \o r : r \in in.rels} |->
                       ContentOf(SubSeq(p, 2, Len(p)))]
        /\ dirs = UNION {Ancestors(SubSeq(<<W>> \o r, 1, Len(r))) : r \in in.rels}
                    \cup {<<>>, <<W>>}
        /\ unreadable = {<<W>> \o r : r \in in.unr}
        /\ walkq = <<>>
        /\ artifacts = <<>>
        /\ warnings = {}
        /\ written = <<>>
        /\ files0 = files
        /\ rerun = FALSE
        /\ firstrun = <<>>

Next ==
    \/ ApplyConfigFileOk
    \/ ApplyConfigFileErr
    \/ ApplyPresetOk
    \/ ApplyPresetErr
    \/ CollectBegin
    \/ WalkDirectory
    \/ WalkIgnored
    \/ WalkFileOk
    \/ WalkFileErr
    \/ CollectEnd
    \/ CreateDirAllOk
    \/ CreateDirAllErr
    \/ WriteOk
    \/ WriteErr
    \/ WriteAllEnd
    \/ Rerun

Spec == Init /\ [][Next]_vars

\* ------------------------------------------------------- what the claims use
\* collect has returned and its result is in `artifacts`
Collected == pc \in {"create_dir_all", "write", "done"}

\* the regular files under the source root when collect ran
SourceFiles ==
    {f \in DOMAIN files0 : StartsWith(f, Resolve(config.source_dir))}

\* a file's path relative to the source root
RelOf(f) == SubSeq(f, Len(Resolve(config.source_dir)) + 1, Len(f))

\* the files collect returned an artifact for
ArtifactPaths == {Resolve(artifacts[i].original_path) : i \in 1..Len(artifacts)}

\* the relative path is an ignored directory or lies under one
UnderIgnored(rel, ignored_dirs) ==
    \E i \in 1..Len(ignored_dirs) :
        LET d == ParsePath(ignored_dirs[i])
        IN  Len(d) <= Len(rel) /\ \A k \in 1..Len(d) : rel[k] = d[k]

\* the lower-cased extension of a file name: what follows its last dot, if a
\* dot follows the first character
ExtensionOf(name) ==
    IF \E i \in 2..Len(name) : name[i] = DOT
    THEN LET k == CHOOSE i \in 2..Len(name) :
                      name[i] = DOT /\ \A j \in (i + 1)..Len(name) : name[j] # DOT
         IN  Some(ToLowercase(SubSeq(name, k + 1, Len(name))))
    ELSE None

IsExcluded(name, excluded) ==
    /\ IsSome(ExtensionOf(name))
    /\ Unwrap(ExtensionOf(name)) \in Range(excluded)

IsIncluded(name, included) ==
    \/ included = <<>>
    \/ /\ IsSome(ExtensionOf(name))
       /\ Unwrap(ExtensionOf(name)) \in Range(included)

\* the acceptance rule of the filter: not ignored, not excluded, included
Accepted(f) ==
    /\ ~UnderIgnored(RelOf(f), GetIgnoredDirs(config))
    /\ ~IsExcluded(Last(f), GetExcludedExtensions(config))
    /\ IsIncluded(Last(f), GetIncludedExtensions(config))

\* ------------------------------------------------------------------ claims
\* C1: once collect has returned, a (readable) regular file under the source
\* root is in the returned list if and only if it is not under an ignored
\* directory, its lower-cased extension is not in the exclude list, and the
\* include list is empty or holds its lower-cased extension.
C1_CollectedIffAccepted ==
    (Collected /\ unreadable = {}) =>
        \A f \in SourceFiles : (f \in ArtifactPaths) <=> Accepted(f)

\* the destination directory lies inside the source tree
DestInsideSource ==
    StartsWith(Resolve(config.dest_dir), Resolve(config.source_dir))

\* C2: the destination directory's base name is always in the effective
\* ignore list, and when the destination lies inside the source tree a second
\* run collects no file of the destination directory: it collects the files
\* the first run collected.
C2_NoReingest ==
    /\ pc \notin {"config_file", "preset"} =>
          \E i \in 1..Len(GetIgnoredDirs(config)) :
              Some(GetIgnoredDirs(config)[i]) = FileName(config.dest_dir)
    /\ (rerun /\ Collected /\ DestInsideSource) =>
          /\ \A f \in ArtifactPaths : ~StartsWith(f, Resolve(config.dest_dir))
          /\ ArtifactPaths =
                {Resolve(firstrun[i].original_path) : i \in 1..Len(firstrun)}

\* the listed target directories that exist, as paths from the source root
ExistingTargets ==
    {PathJoin(config.source_dir, GetTargetDirs(config)[i]) :
        i \in {j \in 1..Len(GetTargetDirs(config)) :
                  Exists(PathJoin(config.source_dir, GetTargetDirs(config)[j]))}}

\* C3: with a non-empty target-directory list collect returns only files under
\* a listed target directory that exists; with an empty list it returns the
\* accepted files of the whole tree.
C3_OnlyUnderTargets ==
    Collected =>
        IF GetTargetDirs(config) # <<>>
        THEN \A f \in ArtifactPaths :
                \E t \in ExistingTargets : StartsWith(f, Resolve(t))
        ELSE \A f \in SourceFiles :
                (f \notin unreadable /\ Accepted(f)) => f \in ArtifactPaths

\* two listed target directories that both exist, one inside the other
OverlappingTargets ==
    \E t, u \in ExistingTargets :
        Resolve(t) # Resolve(u) /\ StartsWith(Resolve(u), Resolve(t))

\* C4: no two artifacts of the list collect builds have the same
\* original_path, and with overlapping target directories every readable
\* accepted file under one of them is in the list exactly once.
C4_EachFileOnce ==
    /\ \A i, j \in 1..Len(artifacts) :
          artifacts[i].original_path = artifacts[j].original_path => i = j
    /\ (Collected /\ OverlappingTargets) =>
          \A f \in SourceFiles :
              (/\ f \notin unreadable
               /\ Accepted(f)
               /\ \E t \in ExistingTargets : StartsWith(f, Resolve(t)))
              => Cardinality({i \in 1..Len(artifacts) :
                                 Resolve(artifacts[i].original_path) = f}) = 1

\* overlapping target directories, and a file under the inner one collected
C4_Witness ==
    /\ Collected
    /\ \E t, u \in ExistingTargets :
          /\ Resolve(t) # Resolve(u)
          /\ StartsWith(Resolve(u), Resolve(t))
          /\ \E f \in ArtifactPaths : StartsWith(f, Resolve(u))

\* the components of a relative path, with "_" between them
Flattened(rel) ==
    IF rel = <<>> THEN <<>>
    ELSE Concat([i \in 1..Len(rel) |->
                    IF i = 1 THEN rel[i] ELSE <<USCORE>> \o rel[i]])

\* C5: an artifact's name is its path relative to the source root with "_" in
\* the place of every separator; a file directly under the source root keeps
\* its file name.
C5_FlattenedName ==
    \A i \in 1..Len(artifacts) :
        LET rel == RelOf(Resolve(artifacts[i].original_path))
        IN  /\ artifacts[i].new_filename = Flattened(rel)
            /\ SEP \notin Range(artifacts[i].new_filename)
            /\ Len(rel) = 1 => artifacts[i].new_filename = rel[1]

\* artifacts of a file directly under the source root and of one three
\* directories down
C5_Witness ==
    /\ \E i \in 1..Len(artifacts) :
          Len(RelOf(Resolve(artifacts[i].original_path))) = 1
    /\ \E i \in 1..Len(artifacts) :
          Len(RelOf(Resolve(artifacts[i].original_path))) = 3

\* the index of the last artifact of the list with the given name
LastNamed(name) ==
    CHOOSE i \in 1..Len(artifacts) :
        /\ artifacts[i].new_filename = name
        /\ \A j \in (i + 1)..Len(artifacts) : artifacts[j].new_filename # name

\* two files whose relative paths differ and flatten to the same name
Colliding(f, g) == f # g /\ Flattened(RelOf(f)) = Flattened(RelOf(g))

\* C6: when two readable files that are not ignored flatten to the same name,
\* collect returns an artifact for each, no write fails because the name is
\* shared,
\* and once write_all has returned Ok the destination holds under every
\* artifact name the content of the last artifact of the list with that name.
C6_LastWriterWins ==
    /\ Collected =>
          \A f, g \in SourceFiles :
              (/\ Colliding(f, g)
               /\ {f, g} \cap unreadable = {}
               /\ ~UnderIgnored(RelOf(f), GetIgnoredDirs(config))
               /\ ~UnderIgnored(RelOf(g), GetIgnoredDirs(config)))
              => {f, g} \subseteq ArtifactPaths
    /\ (/\ pc = "write"
        /\ Len(written) < Len(artifacts)
        /\ \E j \in 1..Len(artifacts) :
              /\ j # Len(written) + 1
              /\ artifacts[j].new_filename =
                    artifacts[Len(written) + 1].new_filename) =>
          CanWrite(PathJoin(config.dest_dir,
                            <<artifacts[Len(written) + 1].new_filename>>))
    /\ pc = "done" =>
          \A i \in 1..Len(artifacts) :
              LET p == Resolve(PathJoin(config.dest_dir,
                                        <<artifacts[i].new_filename>>))
              IN  /\ p \in DOMAIN files
                  /\ files[p] = artifacts[LastNamed(artifacts[i].new_filename)].content

\* write_all has returned Ok for a list with two artifacts of one name
C6_Witness ==
    /\ pc = "done"
    /\ \E i, j \in 1..Len(artifacts) :
          /\ i < j
          /\ artifacts[i].new_filename = artifacts[j].new_filename
          /\ artifacts[i].content # artifacts[j].content

\* the regular files under the source root that are not under an ignored
\* directory
Candidates ==
    {f \in SourceFiles : ~UnderIgnored(RelOf(f), GetIgnoredDirs(config))}

\* C7: collect never ends the run with an error: when it has returned, the
\* list holds every readable candidate file and no unreadable one, and a
\* warning is recorded for exactly the unreadable candidates.
C7_PerFileErrorsSkipped ==
    /\ pc = "exit1" => walkq = <<>>
    /\ Collected =>
          /\ ArtifactPaths = Candidates \ unreadable
          /\ {Resolve(p) : p \in warnings} = Candidates \cap unreadable

\* collect has returned a list that holds a file and leaves an unreadable one
\* out
C7_Witness ==
    /\ Collected
    /\ ArtifactPaths # {}
    /\ warnings # {}
    /\ Candidates \cap unreadable # {}

RECURSIVE WriteAllOf(_, _, _)
\* the files after the first n artifacts of the list are written over fs
WriteAllOf(fs, arts, n) ==
    IF n = 0 THEN fs
    ELSE LET before == WriteAllOf(fs, arts, n - 1)
             p == Resolve(PathJoin(config.dest_dir, <<arts[n].new_filename>>))
         IN  [x \in (DOMAIN before) \cup {p} |->
                 IF x = p THEN arts[n].content ELSE before[x]]

\* C8: write_all writes nothing before the destination directory and its
\* parents are there; it writes the artifacts in list order; at every moment,
\* also after a failure, the disk holds what it held when write_all was called
\* with the artifacts written so far on top: nothing when creating the
\* directory failed, and the first k-1 artifacts when the k-th write failed.
C8_WriteAllOrderNoRollback ==
    /\ (pc = "write" \/ written # <<>>) =>
          Ancestors(Resolve(config.dest_dir)) \subseteq dirs
    /\ pc = "create_dir_all" => written = <<>>
    /\ Len(written) <= Len(artifacts)
    /\ \A i \in 1..Len(written) :
          Resolve(written[i]) =
              Resolve(PathJoin(config.dest_dir, <<artifacts[i].new_filename>>))
    /\ files = WriteAllOf(files0, artifacts, Len(written))
    /\ pc = "done" => Len(written) = Len(artifacts)

\* write_all has failed on the second artifact: the first is on disk, the
\* second is not
C8_Witness ==
    /\ pc = "exit1"
    /\ Len(artifacts) >= 2
    /\ Len(written) = 1
    /\ Resolve(written[1]) \in DOMAIN files
    /\ Resolve(written[1]) \notin DOMAIN files0
    /\ Resolve(PathJoin(config.dest_dir, <<artifacts[2].new_filename>>))
          \notin DOMAIN files

\* the preset named on the command line is in the table
PresetKnown ==
    IsSome(args.preset) /\ Unwrap(args.preset) \in DOMAIN PresetConfigs

\* the configuration file was read and sets the field
FileSets(field) ==
    /\ IsSome(args.config_file)
    /\ IsSome(cfgfile)
    /\ IsSome(Unwrap(cfgfile)[field])

\* the fields set explicitly, by the command line or the configuration file
Overridden ==
    {f \in {"target_dirs", "excluded_extensions", "included_extensions",
            "additional_ignored_dirs"} :
        args[f] # BaseArgs(args.dest_dir)[f] \/ FileSets(f)}
      \cup (IF FileSets("dest_dir") THEN {"dest_dir"} ELSE {})

\* the value the preset gives a field
PresetValue(field) ==
    LET preset == PresetConfigs[Unwrap(args.preset)]
    IN  CASE field = "additional_ignored_dirs" -> JoinStr(preset.ignored_dirs, COMMA)
          [] field = "included_extensions" -> JoinStr(preset.included_extensions, COMMA)
          [] field = "excluded_extensions" -> JoinStr(preset.excluded_extensions, COMMA)
          [] field = "target_dirs" -> Some(JoinStr(preset.target_dirs, COMMA))

\* the value the explicit setting gives a field: the configuration file's
\* over the command line's
OverrideValue(field) ==
    IF FileSets(field) THEN ApplyToConfig(Unwrap(cfgfile), args)[field]
    ELSE args[field]

\* C9: with a known preset and exactly one field set explicitly, the final
\* configuration holds the explicit value for that field, the preset's value
\* for every other field a preset gives, and the source and destination
\* directory the command line and the configuration file give.
C9_OverrideKept ==
    (/\ pc \in {"collect", "walk", "create_dir_all", "write", "done"}
     /\ PresetKnown
     /\ Cardinality(Overridden) = 1) =>
        /\ \A f \in {"target_dirs", "excluded_extensions",
                     "included_extensions", "additional_ignored_dirs"} :
              config[f] = IF f \in Overridden THEN OverrideValue(f)
                          ELSE PresetValue(f)
        /\ config.source_dir = OverrideValue("source_dir")
        /\ config.dest_dir = OverrideValue("dest_dir")

\* the configuration file named on the command line cannot be read or parsed,
\* or the preset named is unknown
ConfigurationError ==
    \/ IsSome(args.config_file) /\ ~IsSome(cfgfile)
    \/ IsSome(args.preset) /\ Unwrap(args.preset) \notin DOMAIN PresetConfigs

\* C10: with a configuration error the run is never at or past collect: it is
\* applying the configuration or has exited with status 1, no entry of the
\* source tree has been visited and nothing has been written.
C10_ConfigErrorsBeforeCollect ==
    ConfigurationError =>
        /\ pc \in {"config_file", "preset", "exit1"}
        /\ walkq = <<>>
        /\ artifacts = <<>>
        /\ warnings = {}
        /\ written = <<>>
        /\ files = files0

\* the run has exited with status 1 on a configuration error, over a tree
\* that holds files
C10_Witness ==
    /\ ConfigurationError
    /\ pc = "exit1"
    /\ SourceFiles # {}

\* where the source root may lie
SourceRoots == { <<CurDir>>, <<W>>, <<<<"m">>, W>> }

\* C11: when collect is called, is_ignored is true of a file exactly when its path relative to the
\* source root is an ignored directory or lies under one, component by
\* component, wherever the source root lies; so collect leaves out the files
\* under an ignored directory and keeps a readable file whose first component
\* only begins with the letters of an ignored name.
C11_IgnoredByRelativePath ==
    /\ pc = "collect" =>
          \A f \in SourceFiles : \A root \in SourceRoots :
              IsIgnored(PathJoin(root, RelOf(f)), root, GetIgnoredDirs(config))
                <=> UnderIgnored(RelOf(f), GetIgnoredDirs(config))
    /\ Collected =>
          \A f \in SourceFiles :
              /\ UnderIgnored(RelOf(f), GetIgnoredDirs(config))
                    => f \notin ArtifactPaths
              /\ (/\ f \notin unreadable
                  /\ RelOf(f) # <<>>
                  /\ RelOf(f)[1] = TARGETS
                  /\ TARGETS \notin {ParsePath(GetIgnoredDirs(config)[i])[1] :
                                        i \in 1..Len(GetIgnoredDirs(config))})
                    => f \in ArtifactPaths

\* collect has left out a file under target and kept one under targets
C11_Witness ==
    /\ Collected
    /\ \E f \in SourceFiles :
          RelOf(f) = <<TARGET, M_RS>> /\ f \notin ArtifactPaths
    /\ \E f \in SourceFiles :
          RelOf(f) = <<TARGETS, M_RS>> /\ f \in ArtifactPaths

\* C12: every artifact's name is non-empty and holds no separator, also the
\* artifact of a walk root that is itself a regular file, and every path
\* write_all writes is a direct child of the destination directory.
C12_FlatNonEmptyName ==
    /\ \A i \in 1..Len(artifacts) :
          /\ artifacts[i].new_filename # <<>>
          /\ SEP \notin Range(artifacts[i].new_filename)
    /\ \A i \in 1..Len(written) :
          /\ Len(Resolve(written[i])) = Len(Resolve(config.dest_dir)) + 1
          /\ StartsWith(Resolve(written[i]), Resolve(config.dest_dir))
====
